---- MODULE Spec2Model ----
(***************************************************************************)
(* Model of rename_to_claude_code_ide.py (class RenameProject).            *)
(*                                                                         *)
(* Text is a sequence of lexemes.  The old identifier "claude-code" is one *)
(* lexeme; every regular expression of self.replacements is a sequence of  *)
(* whole lexemes, and no lexeme can be assembled from pieces of others, so *)
(* a match of a pattern in the character string is exactly a match of its  *)
(* lexeme sequence in the lexeme string.                                   *)
(***************************************************************************)
EXTENDS Integers, Sequences, FiniteSets, TLC

VARIABLES
    fs,                \* the tree under root_path: path -> node
    dry_run,           \* self.dry_run of the current run
    changes,           \* self.changes of the current run
    pc,                \* position of the current run inside run()
    rule_idx,          \* rename_paths: index of the next rule of path_renames
    stack,             \* os.walk: directories still to list
    files_to_process,  \* process_all_files: the worklist
    file_idx,          \* process_all_files: index of the next worklist file
    events,            \* file-system calls of the current run, in order
    fsStart,           \* the tree when the current run started
    past,              \* the finished runs, in order
    text, orig, passes, changes_made   \* the rewrite step alone

mvars == <<fs, dry_run, changes, pc, rule_idx, stack, files_to_process, file_idx, events,
           fsStart, past>>
rvars == <<text, orig, passes, changes_made>>
vars == <<mvars, rvars>>

\* Longest content the rewrite specification enumerates.
MaxLen == 3
\* Number of consecutive runs over the same tree.
MaxRuns == 2

CC == "claude-code"

Lexemes ==
    { CC, "-", "ide", ".", "nvim", "txt", "log", "ianks", "/", "require(", ")",
      "\"", "'", ":", "*", " ", "\n", "x" }

\* \s of the re module, restricted to the lexemes.
IsSpace(c) == c \in {" ", "\n"}

CCIDE == <<CC, "-", "ide">>

\* self.replacements, in order.  lit: the literal part of the pattern;
\* rep: the replacement; general: the pattern is wrapped in the two groups
\* (\s|^|") and (\s|$|") and the replacement in \1 ... \2.
replacements ==
    << [lit |-> <<CC, ".", "nvim">>,                 rep |-> CCIDE \o <<".", "nvim">>,                 general |-> FALSE],
       [lit |-> <<CC, ".", "txt">>,                  rep |-> CCIDE \o <<".", "txt">>,                  general |-> FALSE],
       [lit |-> <<CC, ".", "log">>,                  rep |-> CCIDE \o <<".", "log">>,                  general |-> FALSE],
       [lit |-> <<"ianks", "/", CC, ".", "nvim">>,   rep |-> <<"ianks", "/">> \o CCIDE \o <<".", "nvim">>, general |-> FALSE],
       [lit |-> <<"require(", "\"", CC, "\"", ")">>, rep |-> <<"require(", "\"">> \o CCIDE \o <<"\"", ")">>, general |-> FALSE],
       [lit |-> <<"require(", "\"", CC, ".">>,       rep |-> <<"require(", "\"">> \o CCIDE \o <<".">>, general |-> FALSE],
       [lit |-> <<"require(", "'", CC, "'", ")">>,   rep |-> <<"require(", "'">> \o CCIDE \o <<"'", ")">>, general |-> FALSE],
       [lit |-> <<"require(", "'", CC, ".">>,        rep |-> <<"require(", "'">> \o CCIDE \o <<".">>,  general |-> FALSE],
       [lit |-> <<CC, ":">>,                         rep |-> CCIDE \o <<":">>,                         general |-> FALSE],
       [lit |-> <<"*", CC, "-">>,                    rep |-> <<"*">> \o CCIDE \o <<"-">>,              general |-> FALSE],
       [lit |-> <<"/", CC, "/">>,                    rep |-> <<"/">> \o CCIDE \o <<"/">>,              general |-> FALSE],
       [lit |-> <<"\"", CC, "/">>,                   rep |-> <<"\"">> \o CCIDE \o <<"/">>,             general |-> FALSE],
       [lit |-> <<"'", CC, "/">>,                    rep |-> <<"'">> \o CCIDE \o <<"/">>,              general |-> FALSE],
       [lit |-> <<CC>>,                              rep |-> CCIDE,                                    general |-> TRUE] >>

\* s[i..] starts with lit.
LitAt(lit, s, i) ==
    /\ i + Len(lit) - 1 <= Len(s)
    /\ \A j \in 1..Len(lit) : s[i + j - 1] = lit[j]

\* Length consumed by the first group (\s|^|") at position i when the rest
\* of the pattern is to match behind it; -1: the group cannot be placed.
\* The alternatives are tried in the order written.
Group1(s, i) ==
    IF i <= Len(s) /\ IsSpace(s[i]) /\ LitAt(<<CC>>, s, i + 1) THEN 1
    ELSE IF i = 1 /\ LitAt(<<CC>>, s, i) THEN 0
    ELSE IF i <= Len(s) /\ s[i] = "\"" /\ LitAt(<<CC>>, s, i + 1) THEN 1
    ELSE -1

\* Length consumed by the second group (\s|$|") at position j; -1: no match.
\* $ matches at the end and before a newline that ends the string.
Group2(s, j) ==
    IF j <= Len(s) /\ IsSpace(s[j]) THEN 1
    ELSE IF j = Len(s) + 1 \/ (j = Len(s) /\ s[j] = "\n") THEN 0
    ELSE IF j <= Len(s) /\ s[j] = "\"" THEN 1
    ELSE -1

\* Length of the match of rule r that starts at position i of s; -1: none.
\* No pattern matches the empty string.
MatchLen(r, s, i) ==
    IF ~r.general
    THEN IF LitAt(r.lit, s, i) THEN Len(r.lit) ELSE -1
    ELSE LET a == Group1(s, i)
         IN  IF a = -1 THEN -1
             ELSE LET b == Group2(s, i + a + 1)
                  IN  IF b = -1 THEN -1 ELSE a + 1 + b

\* The text a match of rule r at position i is replaced by.
Expand(r, s, i) ==
    IF ~r.general THEN r.rep
    ELSE LET a == Group1(s, i)
             n == MatchLen(r, s, i)
         IN  SubSeq(s, i, i + a - 1) \o r.rep \o SubSeq(s, i + a + 1, i + n - 1)

\* re.sub(pattern, replacement, s): the leftmost non-overlapping matches,
\* scanned from position i on.
RECURSIVE sub(_, _, _)
sub(r, s, i) ==
    IF i > Len(s) THEN <<>>
    ELSE LET n == MatchLen(r, s, i)
         IN  IF n = -1 THEN <<s[i]>> \o sub(r, s, i + 1)
             ELSE Expand(r, s, i) \o sub(r, s, i + n)

\* len(re.findall(pattern, s)), scanned from position i on.
RECURSIVE findall(_, _, _)
findall(r, s, i) ==
    IF i > Len(s) THEN 0
    ELSE LET n == MatchLen(r, s, i)
         IN  IF n = -1 THEN findall(r, s, i + 1)
             ELSE 1 + findall(r, s, i + n)

\* The loop of replace_in_file over rules k..Len(rules): the final content and
\* changes_made, one <<rule index, occurrences>> per rule that changed the text.
RECURSIVE apply_rules(_, _, _, _)
apply_rules(rules, k, content, made) ==
    IF k > Len(rules) THEN [content |-> content, changes_made |-> made]
    ELSE LET new_content == sub(rules[k], content, 1)
         IN  IF new_content # content
             THEN apply_rules(rules, k + 1, new_content,
                              Append(made, <<k, findall(rules[k], content, 1)>>))
             ELSE apply_rules(rules, k + 1, content, made)

rewrite(content) == apply_rules(replacements, 1, content, <<>>)

(***************************************************************************)
(* The file system.  A path is the sequence of names below root_path; the  *)
(* tree is a function from the existing paths to their nodes.  A file      *)
(* carries its content and whether open(..., 'r') + read and open(..., 'w')*)
(* succeed on it (permissions, undecodable bytes); id names the file       *)
(* itself, whatever path it is moved to.                                   *)
(***************************************************************************)
Dir == [kind |-> "dir"]
File(id, c, r, w) == [kind |-> "file", id |-> id, content |-> c, r |-> r, w |-> w]

exists(f, p) == p \in DOMAIN f
is_dir(f, p) == p \in DOMAIN f /\ f[p].kind = "dir"
is_file(f, p) == p \in DOMAIN f /\ f[p].kind = "file"

IsPrefix(p, q) == Len(p) <= Len(q) /\ SubSeq(q, 1, Len(p)) = p
basename(p) == p[Len(p)]

\* Every name occurring in the trees, in the order a directory listing
\* returns them.
NameOrder ==
    << ".git", ".github", "LICENSE", "README.md", "assets", "build", "doc", "lua",
       "node_modules", "plugin", "a.lua", "claude-code", "claude-code-ide",
       "claude-code.lua", "claude-code.txt", "claude-code-ide.lua",
       "claude-code-ide.txt", "ci.yml", "config", "init.lua", "logo.png", "out.txt" >>

\* Path.suffix of a name.
suffix(name) ==
    CASE name \in {"a.lua", "claude-code.lua", "claude-code-ide.lua", "init.lua"} -> ".lua"
      [] name \in {"claude-code.txt", "claude-code-ide.txt", "out.txt"} -> ".txt"
      [] name = "README.md" -> ".md"
      [] name = "ci.yml" -> ".yml"
      [] name = "logo.png" -> ".png"
      [] OTHER -> ""

\* d.startswith('.')
startswith_dot(name) == name \in {".git", ".github"}

text_extensions == {".lua", ".md", ".txt", ".sh", ".nix", ".yaml", ".yml", ".json"}
special_files == {"Justfile", "Makefile", "LICENSE", "CHANGELOG"}
skipped_dirs == {"node_modules", "build", "dist", "__pycache__"}

path_renames ==
    << [old |-> <<"lua", "claude-code">>,        new |-> <<"lua", "claude-code-ide">>],
       [old |-> <<"doc", "claude-code.txt">>,    new |-> <<"doc", "claude-code-ide.txt">>],
       [old |-> <<"plugin", "claude-code.lua">>, new |-> <<"plugin", "claude-code-ide.lua">>] >>

git_config == <<".git", "config">>
OLD_NVIM == <<CC, ".", "nvim">>
NEW_NVIM == CCIDE \o <<".", "nvim">>

should_process_file(file_path) ==
    IF basename(file_path) \in special_files THEN TRUE
    ELSE suffix(basename(file_path)) \in text_extensions

\* A file-system call: what, by which method, on which path.
Ev(op, by, p) == <<op, by, p>>

\* new_full.parent.mkdir(parents=True, exist_ok=True)
mkdir_parents(f, p) ==
    LET missing == {SubSeq(p, 1, n) : n \in 0..(Len(p) - 1)} \ DOMAIN f
    IN  [q \in DOMAIN f \cup missing |-> IF q \in missing THEN Dir ELSE f[q]]

\* os.rename(src, dst) where dst is absent or a file replaced by a file.
relocate(f, src, dst) ==
    LET moved == {p \in DOMAIN f : IsPrefix(src, p)}
        kept == DOMAIN f \ moved
        target(p) == dst \o SubSeq(p, Len(src) + 1, Len(p))
    IN  [q \in kept \cup {target(p) : p \in moved} |->
            IF IsPrefix(dst, q) THEN f[src \o SubSeq(q, Len(dst) + 1, Len(q))]
            ELSE f[q]]

\* shutil.move(src, dst): an existing directory dst receives src beneath it;
\* raised: shutil.Error (the nested path exists) or FileExistsError (a
\* directory moved onto a file).
move(f, src, dst) ==
    LET real_dst == IF is_dir(f, dst) THEN Append(dst, basename(src)) ELSE dst
    IN  IF is_dir(f, dst) /\ exists(f, real_dst)
        THEN [raised |-> TRUE, fs |-> f]
        ELSE IF is_file(f, real_dst) /\ is_dir(f, src)
        THEN [raised |-> TRUE, fs |-> f]
        ELSE [raised |-> FALSE, fs |-> relocate(f, src, real_dst)]

\* One iteration of the loop of rename_paths, for rule r.
rename_path(f, dry, r) ==
    IF exists(f, r.old)
    THEN LET m == IF dry THEN [raised |-> FALSE, fs |-> f]
                  ELSE move(mkdir_parents(f, r.new), r.old, r.new)
         IN  [fs |-> m.fs, raised |-> m.raised,
              log |-> << <<"Renaming", r.old, r.new>> >>,
              events |-> << Ev("exists", "rename_paths", r.old) >>
                         \o (IF dry THEN <<>> ELSE << Ev("move", "rename_paths", r.old) >>)]
    ELSE [fs |-> f, raised |-> FALSE,
          log |-> << <<"Warning: Path not found", r.old>> >>,
          events |-> << Ev("exists", "rename_paths", r.old) >>]

\* The entries of directory top, in listing order.
listing(f, top) == SelectSeq(NameOrder, LAMBDA n : exists(f, Append(top, n)))

\* prune as if the list were rebound (dirs = [...]) instead of assigned in
\* place: os.walk still descends into every directory.
prune_rebound(dirs) == dirs

\* dirs[:] = [d for d in dirs if not d.startswith('.') and d not in {...}]
prune(dirs) == SelectSeq(dirs, LAMBDA d : ~startswith_dot(d) /\ d \notin skipped_dirs)

Paths(top, names) == [n \in 1..Len(names) |-> Append(top, names[n])]

\* eligible_files without the call of should_process_file.
eligible_files_all(f, top) ==
    Paths(top, SelectSeq(listing(f, top), LAMBDA n : ~is_dir(f, Append(top, n))))

\* The files of directory top appended to the worklist.
eligible_files(f, top) ==
    SelectSeq(Paths(top, SelectSeq(listing(f, top), LAMBDA n : ~is_dir(f, Append(top, n)))),
              should_process_file)

\* walk_events of a loop that rewrites each file as soon as it is found.
walk_events_eager(top, found) ==
    << Ev("listdir", "process_all_files", top) >>
    \o [n \in 1..Len(found) |-> Ev("read", "replace_in_file", found[n])]

\* The file-system calls of one os.walk iteration.
walk_events(top, found) == << Ev("listdir", "process_all_files", top) >>

\* write_back without the test of self.dry_run.
write_back_always(f, dry, file_path, content) ==
    IF ~f[file_path].w
    THEN [fs |-> f, failed |-> TRUE,
          events |-> << Ev("write", "replace_in_file", file_path) >>]
    ELSE [fs |-> [f EXCEPT ![file_path].content = content], failed |-> FALSE,
          events |-> << Ev("write", "replace_in_file", file_path) >>]

\* if not self.dry_run: open(file_path, 'w') ... f.write(content)
write_back(f, dry, file_path, content) ==
    IF dry THEN [fs |-> f, failed |-> FALSE, events |-> <<>>]
    ELSE IF ~f[file_path].w
    THEN [fs |-> f, failed |-> TRUE,
          events |-> << Ev("write", "replace_in_file", file_path) >>]
    ELSE [fs |-> [f EXCEPT ![file_path].content = content], failed |-> FALSE,
          events |-> << Ev("write", "replace_in_file", file_path) >>]

RuleEntries(made) == [n \in 1..Len(made) |-> <<"Rule", made[n][1], made[n][2]>>]

\* on_error of a handler that does not catch the exception.
on_error_uncaught(file_path, what) == [raised |-> TRUE, log |-> <<>>]

\* except Exception as e: self.log(f"Error processing {file_path}: {e}")
on_error(file_path, what) ==
    [raised |-> FALSE, log |-> << <<"Error processing", file_path, what>> >>]

replace_in_file(f, dry, file_path) ==
    LET rd == << Ev("read", "replace_in_file", file_path) >>
    IN  IF ~(is_file(f, file_path) /\ f[file_path].r)
        THEN LET e == on_error(file_path, "read")
             IN  [fs |-> f, log |-> e.log, events |-> rd, raised |-> e.raised]
        ELSE LET res == rewrite(f[file_path].content)
             IN  IF res.content = f[file_path].content
                 THEN [fs |-> f, log |-> <<>>, events |-> rd, raised |-> FALSE]
                 ELSE LET wr == write_back(f, dry, file_path, res.content)
                          said == << <<"Updating file", file_path>> >>
                                  \o RuleEntries(res.changes_made)
                          e == on_error(file_path, "write")
                      IN  [fs |-> wr.fs,
                           log |-> IF wr.failed THEN said \o e.log ELSE said,
                           events |-> rd \o wr.events,
                           raised |-> wr.failed /\ e.raised]

\* 'claude-code.nvim' in content
contains(s, lit) == \E n \in 1..Len(s) : LitAt(lit, s, n)

\* content.replace('claude-code.nvim', 'claude-code-ide.nvim')
RECURSIVE str_replace(_, _, _, _)
str_replace(s, old, new, n) ==
    IF n > Len(s) THEN <<>>
    ELSE IF LitAt(old, s, n) THEN new \o str_replace(s, old, new, n + Len(old))
    ELSE <<s[n]>> \o str_replace(s, old, new, n + 1)

update_git_remote(f, dry) ==
    IF ~exists(f, git_config)
    THEN [fs |-> f, log |-> <<>>, events |-> << Ev("exists", "update_git_remote", git_config) >>]
    ELSE LET ex == << Ev("exists", "update_git_remote", git_config),
                      Ev("read", "update_git_remote", git_config) >>
             warn == << <<"Warning: Could not update git config">> >>
         IN  IF ~(is_file(f, git_config) /\ f[git_config].r)
             THEN [fs |-> f, log |-> warn, events |-> ex]
             ELSE IF ~contains(f[git_config].content, OLD_NVIM)
             THEN [fs |-> f, log |-> <<>>, events |-> ex]
             ELSE LET said == << <<"Updating git remote URL...">> >>
                      new_content == str_replace(f[git_config].content, OLD_NVIM, NEW_NVIM, 1)
                      wev == << Ev("write", "update_git_remote", git_config) >>
                  IN  IF dry THEN [fs |-> f, log |-> said, events |-> ex]
                      ELSE IF ~f[git_config].w
                      THEN [fs |-> f, log |-> said \o warn, events |-> ex \o wev]
                      ELSE [fs |-> [f EXCEPT ![git_config].content = new_content],
                            log |-> said, events |-> ex \o wev]

(***************************************************************************)
(* Project trees the runs start from.                                      *)
(***************************************************************************)
S_plain == <<"x">>
S_bare == <<CC>>
S_req == <<"require(", "\"", CC, "\"", ")">>
S_tag == <<"*", CC, "-", "x", "*">>
S_nvimtag == <<"*", CC, ".", "nvim", "*">>
S_url == <<"ianks", "/", CC, ".", "nvim">>

Samples == {S_plain, S_req, S_tag, S_nvimtag}

BaseTree ==
    (<<>> :> Dir) @@ (<<"lua">> :> Dir) @@ (<<"doc">> :> Dir) @@ (<<"plugin">> :> Dir)
    @@ (<<"plugin", "claude-code.lua">> :> File("plugin", S_bare, TRUE, TRUE))
    @@ (<<"LICENSE">> :> File("license", OLD_NVIM, TRUE, TRUE))
    @@ (<<"assets">> :> Dir)
    @@ (<<"assets", "logo.png">> :> File("logo", S_bare, TRUE, TRUE))
    @@ (<<"node_modules">> :> Dir)
    @@ (<<"node_modules", "a.lua">> :> File("dep", S_bare, TRUE, TRUE))
    @@ (<<".github">> :> Dir)
    @@ (<<".github", "ci.yml">> :> File("ci", S_bare, TRUE, TRUE))
    @@ (<<"doc", "build">> :> Dir)
    @@ (<<"doc", "build", "out.txt">> :> File("built", S_bare, TRUE, TRUE))

Empty == [p \in {} |-> Dir]

LuaOld(c) ==
    IF c = "dir"
    THEN (<<"lua", "claude-code">> :> Dir)
         @@ (<<"lua", "claude-code", "init.lua">> :> File("init", S_req, TRUE, TRUE))
    ELSE Empty

LuaNew(c) ==
    CASE c = "dir" -> (<<"lua", "claude-code-ide">> :> Dir)
      [] c = "clash" -> (<<"lua", "claude-code-ide">> :> Dir)
                        @@ (<<"lua", "claude-code-ide", "claude-code">> :> Dir)
      [] OTHER -> Empty

DocOld(b) ==
    IF b THEN <<"doc", "claude-code.txt">> :> File("help", S_tag, TRUE, TRUE) ELSE Empty

DocNew(b) ==
    IF b THEN <<"doc", "claude-code-ide.txt">> :> File("newhelp", S_plain, TRUE, TRUE) ELSE Empty

Readme(c, perm) ==
    <<"README.md">> :> File("readme", c, perm # "unreadable", perm # "readonly")

Git(c) ==
    CASE c = "url" -> (<<".git">> :> Dir) @@ (git_config :> File("gitcfg", S_url, TRUE, TRUE))
      [] c = "url_readonly" -> (<<".git">> :> Dir) @@ (git_config :> File("gitcfg", S_url, TRUE, FALSE))
      [] c = "plain" -> (<<".git">> :> Dir) @@ (git_config :> File("gitcfg", S_plain, TRUE, TRUE))
      [] OTHER -> Empty

\* README.md: every sample readable and writable, one unreadable file, and a
\* read-only file with and without text to rewrite.
Readmes ==
    {<<c, "rw">> : c \in Samples}
    \cup {<<S_plain, "unreadable">>, <<S_plain, "readonly">>, <<S_tag, "readonly">>}

Trees ==
    { BaseTree @@ LuaOld(lo) @@ LuaNew(ln) @@ DocOld(d) @@ DocNew(dn)
               @@ Readme(rm[1], rm[2]) @@ Git(g) :
        lo \in {"none", "dir"}, ln \in {"none", "dir", "clash"},
        d \in BOOLEAN, dn \in BOOLEAN, rm \in Readmes,
        g \in {"none", "url", "url_readonly", "plain"} }

(***************************************************************************)
(* run(), one step at a time.                                              *)
(***************************************************************************)
Init ==
    /\ fs \in Trees
    /\ fsStart = fs
    /\ dry_run = TRUE
    /\ changes = <<>>
    /\ pc = "idle"
    /\ rule_idx = 1
    /\ stack = <<>>
    /\ files_to_process = <<>>
    /\ file_idx = 1
    /\ events = <<>>
    /\ past = <<>>
    /\ text = <<>> /\ orig = <<>> /\ passes = 0 /\ changes_made = <<>>

Finished(outcome, f, log) ==
    Append(past, [dry_run |-> dry_run, changes |-> log, before |-> fsStart,
                  after |-> f, outcome |-> outcome])

\* RenameProject(args.path, dry_run=not args.execute).run(), up to rename_paths.
run_start ==
    /\ pc \in {"idle", "done", "crashed"}
    /\ Len(past) < MaxRuns
    /\ dry_run' \in BOOLEAN
    /\ changes' = << <<"Step 1: Renaming directories and files...">> >>
    /\ fsStart' = fs
    /\ pc' = "rename"
    /\ rule_idx' = 1
    /\ stack' = <<>>
    /\ files_to_process' = <<>>
    /\ file_idx' = 1
    /\ events' = <<>>
    /\ UNCHANGED <<fs, past, rvars>>

\* rename_paths: one rule; an exception of shutil.move leaves run().
rename_paths_step ==
    /\ pc = "rename"
    /\ rule_idx <= Len(path_renames)
    /\ LET res == rename_path(fs, dry_run, path_renames[rule_idx])
       IN  /\ fs' = res.fs
           /\ changes' = changes \o res.log
           /\ events' = events \o res.events
           /\ IF res.raised
              THEN /\ pc' = "crashed"
                   /\ past' = Finished("crashed", res.fs, changes \o res.log)
                   /\ UNCHANGED rule_idx
              ELSE /\ rule_idx' = rule_idx + 1
                   /\ UNCHANGED <<pc, past>>
    /\ UNCHANGED <<dry_run, stack, files_to_process, file_idx, fsStart, rvars>>

\* rename_paths returns; run() logs step 2 and process_all_files starts os.walk.
rename_paths_done ==
    /\ pc = "rename"
    /\ rule_idx > Len(path_renames)
    /\ changes' = Append(changes, <<"Step 2: Updating file contents...">>)
    /\ stack' = << <<>> >>
    /\ files_to_process' = <<>>
    /\ pc' = "walk"
    /\ UNCHANGED <<fs, dry_run, rule_idx, file_idx, events, fsStart, past, rvars>>

\* One iteration of for root, dirs, files in os.walk(self.root_path).
walk_step ==
    /\ pc = "walk"
    /\ stack # <<>>
    /\ LET top == Head(stack)
           dirs == prune(SelectSeq(listing(fs, top), LAMBDA n : is_dir(fs, Append(top, n))))
           found == eligible_files(fs, top)
       IN  /\ files_to_process' = files_to_process \o found
           /\ stack' = Paths(top, dirs) \o Tail(stack)
           /\ events' = events \o walk_events(top, found)
    /\ UNCHANGED <<fs, dry_run, changes, pc, rule_idx, file_idx, fsStart, past, rvars>>

\* os.walk is exhausted: log the count, start the loop over the worklist.
walk_done ==
    /\ pc = "walk"
    /\ stack = <<>>
    /\ changes' = Append(changes, <<"Processing files...", Len(files_to_process)>>)
    /\ file_idx' = 1
    /\ pc' = "process"
    /\ UNCHANGED <<fs, dry_run, rule_idx, stack, files_to_process, events, fsStart, past, rvars>>

\* for file_path in files_to_process: self.replace_in_file(file_path)
process_step ==
    /\ pc = "process"
    /\ file_idx <= Len(files_to_process)
    /\ LET res == replace_in_file(fs, dry_run, files_to_process[file_idx])
       IN  /\ fs' = res.fs
           /\ changes' = changes \o res.log
           /\ events' = events \o res.events
           /\ IF res.raised
              THEN /\ pc' = "crashed"
                   /\ past' = Finished("crashed", res.fs, changes \o res.log)
                   /\ UNCHANGED file_idx
              ELSE /\ file_idx' = file_idx + 1
                   /\ UNCHANGED <<pc, past>>
    /\ UNCHANGED <<dry_run, rule_idx, stack, files_to_process, fsStart, rvars>>

\* process_all_files returns; run() logs step 3.
process_done ==
    /\ pc = "process"
    /\ file_idx > Len(files_to_process)
    /\ changes' = Append(changes, <<"Step 3: Checking git configuration...">>)
    /\ pc' = "git"
    /\ UNCHANGED <<fs, dry_run, rule_idx, stack, files_to_process, file_idx, events,
                   fsStart, past, rvars>>

\* update_git_remote, then run() prints the summary and returns.
git_step ==
    /\ pc = "git"
    /\ LET res == update_git_remote(fs, dry_run)
       IN  /\ fs' = res.fs
           /\ changes' = changes \o res.log
           /\ events' = events \o res.events
           /\ past' = Finished("done", res.fs, changes \o res.log)
    /\ pc' = "done"
    /\ UNCHANGED <<dry_run, rule_idx, stack, files_to_process, file_idx, fsStart, rvars>>

Next ==
    \/ run_start
    \/ rename_paths_step
    \/ rename_paths_done
    \/ walk_step
    \/ walk_done
    \/ process_step
    \/ process_done
    \/ git_step

Spec == Init /\ [][Next]_vars

(***************************************************************************)
(* Properties.                                                             *)
(***************************************************************************)
Range(q) == {q[n] : n \in 1..Len(q)}
Kinds(log) == {e[1] : e \in Range(log)}
Running == pc \notin {"idle"}
ChangeKinds == {"Renaming", "Updating file", "Rule", "Updating git remote URL..."}

\* C1: a run in preview mode leaves the tree as it was when the run started:
\* the same paths, the same nodes, the same content, at every step of the run
\* and when it has finished.
C1_PreviewLeavesTreeUnchanged ==
    /\ (Running /\ dry_run) => fs = fsStart
    /\ \A n \in 1..Len(past) : past[n].dry_run => past[n].after = past[n].before

\* A finished preview run that announced a rename, a file update and the
\* update of the git remote.
C1_Witness ==
    /\ pc = "done" /\ dry_run
    /\ {"Renaming", "Updating file", "Updating git remote URL..."} \subseteq Kinds(changes)

PhaseRank(by) ==
    CASE by = "rename_paths" -> 1
      [] by = "process_all_files" -> 2
      [] by = "replace_in_file" -> 3
      [] by = "update_git_remote" -> 4

\* C9: the file-system calls of a run come in the order rename_paths, os.walk,
\* replace_in_file, update_git_remote; no directory is listed before the last
\* rename rule is done, no file is read before os.walk is exhausted, the git
\* configuration is touched only after the last worklist file, and every
\* worklist path names a file of the tree as the renames left it.
C9_PhasesSequenced ==
    /\ \A a, b \in 1..Len(events) :
          a < b => PhaseRank(events[a][2]) <= PhaseRank(events[b][2])
    /\ \A e \in Range(events) :
          /\ e[2] = "process_all_files" => rule_idx > Len(path_renames)
          /\ e[2] = "replace_in_file" => stack = <<>> /\ pc \in {"process", "git", "done"}
          /\ e[2] = "update_git_remote" => file_idx > Len(files_to_process) /\ pc = "done"
    /\ pc \in {"walk", "process", "git", "done"} =>
          \A p \in Range(files_to_process) :
             /\ is_file(fs, p)
             /\ ~dry_run =>
                   \A r \in Range(path_renames) :
                      exists(fsStart, r.old) => ~IsPrefix(r.old, p)

\* A finished apply run that moved lua/claude-code and then rewrote the file
\* at its new path.
C9_Witness ==
    /\ pc = "done" /\ ~dry_run
    /\ Ev("move", "rename_paths", <<"lua", "claude-code">>) \in Range(events)
    /\ Ev("write", "replace_in_file", <<"lua", "claude-code-ide", "init.lua">>) \in Range(events)
    /\ Ev("read", "update_git_remote", git_config) \in Range(events)

ExcludedName(d) == startswith_dot(d) \/ d \in skipped_dirs
BeneathExcluded(p) == \E n \in 1..(Len(p) - 1) : ExcludedName(p[n])
InExcluded(p) == \E n \in 1..Len(p) : ExcludedName(p[n])

\* C10: no worklist file lies beneath a directory, at any depth below the
\* root, whose name starts with '.' or is one of node_modules, build, dist,
\* __pycache__; os.walk lists no such directory and nothing beneath one, and
\* replace_in_file reads and writes no file beneath one.
C10_ExcludedSubtreesNeverVisited ==
    /\ \A p \in Range(files_to_process) : ~BeneathExcluded(p)
    /\ \A e \in Range(events) :
          /\ e[2] = "process_all_files" => ~InExcluded(e[3])
          /\ e[2] = "replace_in_file" => ~BeneathExcluded(e[3])

\* A finished apply run over a tree that holds the old identifier in eligible
\* files inside node_modules, inside doc/build and inside .github, and that
\* rewrote other files.
C10_Witness ==
    /\ pc = "done" /\ ~dry_run
    /\ is_file(fs, <<".github", "ci.yml">>)
    /\ fs[<<".github", "ci.yml">>].content = S_bare
    /\ is_file(fs, <<"node_modules", "a.lua">>)
    /\ fs[<<"node_modules", "a.lua">>].content = S_bare
    /\ is_file(fs, <<"doc", "build", "out.txt">>)
    /\ fs[<<"doc", "build", "out.txt">>].content = S_bare
    /\ exists(fs, git_config)
    /\ \E e \in Range(events) : e[1] = "write" /\ e[2] = "replace_in_file"

ErrorsFor(p) == Len(SelectSeq(changes, LAMBDA e : e[1] = "Error processing" /\ e[2] = p))
ReadsOf(p) == Len(SelectSeq(events, LAMBDA e : e = Ev("read", "replace_in_file", p)))
CannotProcess(p) ==
    \/ ~fs[p].r
    \/ /\ ~dry_run /\ ~fs[p].w
       /\ rewrite(fs[p].content).content # fs[p].content

\* C7: a file of the worklist that cannot be read, or cannot be written in
\* apply mode, yields exactly one "Error processing" entry and nothing else
\* yields one; the failure never leaves run(): a run ends abnormally only
\* inside rename_paths, and once the loop over the worklist is over every
\* worklist file has been read exactly once.
C7_ErrorsContained ==
    /\ pc \in {"process", "git", "done"} =>
          \A n \in 1..Len(files_to_process) :
             LET p == files_to_process[n]
             IN  IF n < file_idx
                 THEN /\ ReadsOf(p) = 1
                      /\ ErrorsFor(p) = (IF CannotProcess(p) THEN 1 ELSE 0)
                 ELSE ReadsOf(p) = 0 /\ ErrorsFor(p) = 0
    /\ pc \in {"git", "done"} => file_idx = Len(files_to_process) + 1
    /\ pc = "crashed" => \A e \in Range(events) : e[2] = "rename_paths"

\* A finished run whose log holds an error entry for one file followed by the
\* update of a later file and the git step.
C7_Witness ==
    /\ pc = "done"
    /\ \E a, b \in 1..Len(changes) :
          /\ a < b
          /\ changes[a][1] = "Error processing"
          /\ changes[b][1] = "Updating file"
    /\ \E e \in Range(events) : e[2] = "update_git_remote"

\* C5 as amended: replace_in_file never opens for writing a file that fails
\* the selection policy; the only such file a run opens for writing is
\* .git/config, by update_git_remote in apply mode; every other such file
\* has, wherever a rename moved it, the content it had when the run started.
C5_OnlyGitConfigWrittenOutsidePolicy ==
    /\ \A e \in Range(events) :
          (e[1] = "write" /\ ~should_process_file(e[3])) =>
             e[2] = "update_git_remote" /\ e[3] = git_config /\ ~dry_run
    /\ Running =>
          \A p \in DOMAIN fs, q \in DOMAIN fsStart :
             (/\ is_file(fs, p) /\ is_file(fsStart, q)
              /\ fs[p].id = fsStart[q].id
              /\ ~should_process_file(q) /\ q # git_config)
                => fs[p].content = fsStart[q].content

\* A finished apply run that rewrote eligible files and .git/config while
\* assets/logo.png still holds the old identifier.
C5_Witness ==
    /\ pc = "done" /\ ~dry_run
    /\ Ev("write", "update_git_remote", git_config) \in Range(events)
    /\ fs[git_config].content # fsStart[git_config].content
    /\ \E e \in Range(events) : e[1] = "write" /\ e[2] = "replace_in_file"
    /\ fs[<<"assets", "logo.png">>].content = S_bare

\* C5 as claimed: no file that fails the selection policy is opened for
\* writing, and when the run is over each has the content it started with.
C5_NoFileOutsidePolicyWritten ==
    /\ \A e \in Range(events) : e[1] = "write" => should_process_file(e[3])
    /\ pc = "done" =>
          \A p \in DOMAIN fs :
             (is_file(fs, p) /\ is_file(fsStart, p) /\ ~should_process_file(p))
                => fs[p].content = fsStart[p].content

Subtree(f, p) ==
    LET under == {x \in DOMAIN f : IsPrefix(p, x)}
    IN  [q \in {SubSeq(x, Len(p) + 1, Len(x)) : x \in under} |-> f[p \o q]]

\* C6 as claimed: once rename_paths is past a rule whose old path existed, in
\* apply mode the old path is gone and the new path itself holds exactly what
\* the old path held; in preview mode the tree is untouched and the rename is
\* logged.
C6_RenameMovesOldToNew ==
    pc = "rename" =>
       \A n \in 1..(rule_idx - 1) :
          LET r == path_renames[n]
          IN  exists(fsStart, r.old) =>
                 IF dry_run
                 THEN /\ Subtree(fs, r.old) = Subtree(fsStart, r.old)
                      /\ <<"Renaming", r.old, r.new>> \in Range(changes)
                 ELSE /\ ~exists(fs, r.old)
                      /\ Subtree(fs, r.new) = Subtree(fsStart, r.old)

\* The run met no failure: no file error and no git configuration warning.
Clean(run) ==
    /\ run.outcome = "done"
    /\ Kinds(run.changes) \cap {"Error processing", "Warning: Could not update git config"} = {}

\* C3 as claimed: a finished preview run that follows a finished apply run
\* (one that met no failure) logs no rename, no file update, no rule entry
\* and no git remote update.
C3_PreviewAfterApplyReportsNothing ==
    \A n \in 1..(Len(past) - 1) :
       (/\ ~past[n].dry_run /\ Clean(past[n])
        /\ past[n + 1].dry_run /\ past[n + 1].outcome = "done")
          => Kinds(past[n + 1].changes) \cap ChangeKinds = {}

\* C4 as claimed: a finished preview run and a finished apply run that
\* started on the same tree (and met no failure) have the same change log,
\* entry for entry.
C4_PreviewLogEqualsApplyLog ==
    \A a, b \in 1..Len(past) :
       (/\ past[a].dry_run /\ Clean(past[a])
        /\ ~past[b].dry_run /\ Clean(past[b])
        /\ past[a].before = past[b].before)
          => past[a].changes = past[b].changes

(***************************************************************************)
(* The rewrite step alone, over every content of at most MaxLen lexemes.   *)
(***************************************************************************)
RECURSIVE SeqsUpTo(_, _)
SeqsUpTo(S, n) ==
    IF n = 0 THEN {<<>>}
    ELSE LET shorter == SeqsUpTo(S, n - 1)
         IN  shorter \cup {Append(t, c) : t \in {u \in shorter : Len(u) = n - 1}, c \in S}

RewriteInit ==
    /\ orig \in SeqsUpTo(Lexemes, MaxLen)
    /\ text = orig
    /\ passes = 0
    /\ changes_made = <<>>
    /\ fs = BaseTree /\ fsStart = BaseTree /\ dry_run = TRUE /\ changes = <<>>
    /\ pc = "idle" /\ rule_idx = 1 /\ stack = <<>> /\ files_to_process = <<>>
    /\ file_idx = 1 /\ events = <<>> /\ past = <<>>

RewritePass ==
    /\ passes < 2
    /\ LET res == rewrite(text)
       IN  /\ text' = res.content
           /\ changes_made' = res.changes_made
    /\ passes' = passes + 1
    /\ UNCHANGED <<orig, mvars>>

RewriteNext == RewritePass

RewriteSpec == RewriteInit /\ [][RewriteNext]_vars

\* C2 as claimed: a second pass of the rule list over the output of a first
\* pass substitutes nothing: no rule changes the text, so changes_made stays
\* empty and the text is a fixed point.
C2_SecondPassSubstitutesNothing ==
    passes = 2 => changes_made = <<>>

TWICE == CCIDE \o <<"-", "ide">>

\* C8 as claimed: one pass never adds the suffix twice to one occurrence: its
\* output holds claude-code-ide-ide only if its input did.
C8_NoDoubleTransformation ==
    passes = 1 => (contains(text, TWICE) => contains(orig, TWICE))

====
